---------------------------- MODULE Spec2Model ----------------------------
(***************************************************************************)
(* Model of the OSPF flap-test trend analyzer (src/tend.py), of the        *)
(* parallel connect subsection of the scalable test scripts, and of the    *)
(* advanced flap test (src/ospf_flap_test_advanced.py) that writes the     *)
(* records the analyzer reads.  The three programs run separately: each    *)
(* has its own variables and its own specification (Spec, ConnectSpec,     *)
(* FlapSpec), and the variables of the other two stay at their idle value. *)
(*                                                                         *)
(* The analyzer.                                                           *)
(* One run of main() is a sequence of steps over a results directory:      *)
(* argument check, file discovery, one load step per discovered file, the  *)
(* two analyses, report rendering and the two output files.  The pure      *)
(* functions of the script are operators computed the way the code does.   *)
(*                                                                         *)
(* Numbers.  A number is the reduced fraction <<n, d>>, n >= 0, d > 0.     *)
(* Convergence times are Python floats, and the sums and means the script  *)
(* computes from them (and then compares) are float operations: each one   *)
(* rounds its exact result to the nearest float, ties to even.  The floats *)
(* of the model have a significand of FloatBits bits (CPython's have 53)   *)
(* and no exponent limits.  The percentages of the report, computed from   *)
(* integer counts and printed with one decimal, are computed exactly: at   *)
(* the counts reached here double rounding cannot reach the printed digit. *)
(*                                                                         *)
(* Strings.  A directory name is a sequence of tokens: PFX stands for the  *)
(* substring "ospf_flap_", a digit d for itself.  A trend key, the         *)
(* f-string "{device}-{interface}", is the tuple <<device, "-", interface>>*)
(* An optional field of a JSON object is <<>> when the key is absent and   *)
(* <<v>> when it is present with value v.                                  *)
(***************************************************************************)
EXTENDS Integers, Sequences, FiniteSets, TLC

VARIABLES
    argv,         \* sys.argv[1:]: <<>> or <<results_dir>>
    fs,           \* the results directory: [exists, runs], runs: name -> file
    pc,           \* position in main()
    json_files,   \* main's json_files: sorted sequence of run directory names
    file_idx,     \* load_all_results' loop: files already handled
    all_results,  \* load_all_results' all_results
    warned,       \* files for which "Warning: Could not load" was printed
    trends,       \* main's trends (insertion-ordered dict as a sequence)
    stability,    \* main's stability
    report,       \* main's report
    stdout,       \* what main printed, in order
    written,      \* output files written, in order
    exit_code,    \* process exit status, -1 while running
    \* CommonSetup.connect_to_devices of the scalable test scripts
    devices,      \* the names of testbed.devices
    max_workers,  \* size of the thread pool
    future,       \* device -> pending | running | ok | raised
    yielded,      \* the devices whose future as_completed has yielded
    connected,    \* the list connected
    failed,       \* the list failed
    section,      \* off | pool | passed | failed: the subsection's state
    \* TestOspfInterfaceFlap of ospf_flap_test_advanced.py
    test_configs,         \* the (device, interface) pairs to test, in order
    convergence_timeout,  \* seconds the poll loop may take
    export_results,       \* whether save_results writes the file
    fpc,                  \* position in flap_and_verify_ospf / save_results
    cfg_idx,              \* configurations the loop has finished
    test_result,          \* the record of the configuration under test
    test_results,         \* self.test_results
    baseline_neighbors,   \* the local of that name
    current_neighbors,    \* the local of that name, <<>> while unbound
    converged,            \* the local of that name
    elapsed,              \* time.time() - convergence_start, in seconds
    pushed,               \* the configurations pushed to devices, in order
    results_file          \* ospf_flap_results.json: <<>> or <<records>>

tendvars == <<argv, fs, pc, json_files, file_idx, all_results, warned, trends,
              stability, report, stdout, written, exit_code>>
connvars == <<devices, max_workers, future, yielded, connected, failed,
              section>>
flapvars == <<test_configs, convergence_timeout, export_results, fpc, cfg_idx,
              test_result, test_results, baseline_neighbors,
              current_neighbors, converged, elapsed, pushed, results_file>>
vars == <<tendvars, connvars, flapvars>>

-----------------------------------------------------------------------------
(* Bounds of the input space *)

\* records of one key-and-time series spread over the runs
MaxSeries == 4
\* records of a status or neighbor-table input
MaxRecs == 2
\* run directories of a directory-shape input
MaxDirs == 2
\* significand width of the model's floats
FloatBits == 3
\* devices of the testbed the connect subsection connects to
MaxDevices == 3
\* largest size of the connect subsection's thread pool
MaxWorkers == 2
\* configurations of a run of the flap test
MaxConfigs == 2
\* largest convergence_timeout of the flap test, in seconds
MaxTimeout == 2

-----------------------------------------------------------------------------
(* Sequences and numbers *)

Max2(a, b) == IF a >= b THEN a ELSE b

RECURSIVE GCD(_, _)
GCD(a, b) == IF b = 0 THEN a ELSE GCD(b, a % b)

\* the fraction n / d reduced, d > 0
Frac(n, d) == LET g == GCD(n, d) IN <<n \div g, d \div g>>

RatLess(p, q) == p[1] * q[2] < q[1] * p[2]

RatOfInt(n) == <<n, 1>>

RECURSIVE Pow2(_)
Pow2(k) == IF k = 0 THEN 1 ELSE 2 * Pow2(k - 1)

\* round-half-even of n / d to an integer, n >= 0, d > 0
RoundHalfEven(n, d) ==
    LET q == n \div d
        r == n % d
    IN  IF 2 * r < d THEN q
        ELSE IF 2 * r > d THEN q + 1
        ELSE IF q % 2 = 0 THEN q ELSE q + 1

\* the float nearest to n / d: the significand is brought into
\* [2^(FloatBits-1), 2^FloatBits) and rounded there
RECURSIVE FloatOf(_, _)
FloatOf(n, d) ==
    IF n = 0 THEN <<0, 1>>
    ELSE IF n >= Pow2(FloatBits) * d
    THEN LET r == FloatOf(n, 2 * d) IN Frac(2 * r[1], r[2])
    ELSE IF n < Pow2(FloatBits - 1) * d
    THEN LET r == FloatOf(2 * n, d) IN Frac(r[1], 2 * r[2])
    ELSE <<RoundHalfEven(n, d), 1>>

\* Python's x + y and x / y on floats, y > 0 (y = 0 raises
\* ZeroDivisionError, which every caller rules out or turns into a crash)
FAdd(x, y) == FloatOf(x[1] * y[2] + y[1] * x[2], x[2] * y[2])
FDiv(x, y) == FloatOf(x[1] * y[2], x[2] * y[1])

\* Python's sum() over a list of floats: start at 0, add from the left
RECURSIVE FSum(_)
FSum(s) ==
    IF s = <<>> THEN RatOfInt(0)
    ELSE FAdd(FSum(SubSeq(s, 1, Len(s) - 1)), s[Len(s)])

\* Python's min() and max() over a non-empty list of numbers
RECURSIVE Min(_)
Min(s) == IF Len(s) = 1 THEN s[1]
          ELSE LET m == Min(Tail(s)) IN IF RatLess(m, s[1]) THEN m ELSE s[1]

RECURSIVE Max(_)
Max(s) == IF Len(s) = 1 THEN s[1]
          ELSE LET m == Max(Tail(s)) IN IF RatLess(s[1], m) THEN m ELSE s[1]

\* Python's s[:k] and s[k:]
Take(s, k) == SubSeq(s, 1, k)
Drop(s, k) == SubSeq(s, k + 1, Len(s))

RECURSIVE Flatten(_)
Flatten(ss) == IF ss = <<>> THEN <<>> ELSE Head(ss) \o Flatten(Tail(ss))

-----------------------------------------------------------------------------
(* Directory names *)

PFX == 10

\* str.replace('ospf_flap_', ''): every occurrence is removed
RemoveAllPfx(name) == SelectSeq(name, LAMBDA t : t # PFX)

\* lexicographic order of two names, as Python orders the paths
RECURSIVE NameLess(_, _)
NameLess(a, b) ==
    IF b = <<>> THEN FALSE
    ELSE IF a = <<>> THEN TRUE
    ELSE IF Head(a) # Head(b) THEN Head(a) < Head(b)
    ELSE NameLess(Tail(a), Tail(b))

\* sorted() of a set of names
RECURSIVE SortedNames(_)
SortedNames(S) ==
    IF S = {} THEN <<>>
    ELSE LET least == CHOOSE a \in S : \A b \in S \ {a} : NameLess(a, b)
         IN  <<least>> \o SortedNames(S \ {least})

-----------------------------------------------------------------------------
(* load_all_results *)

\* timestamp_str = json_file.parent.name.replace('ospf_flap_', '')
TimestampStr(dirname) == RemoveAllPfx(dirname)

\* result['test_run'] = timestamp_str
Tag(result, ts) == [result EXCEPT !.test_run = <<ts>>]

\* The elements of a parsed file before the first one that is no JSON
\* object: the assignment result['test_run'] = ... raises on that element
\* and the loop over the file ends there.
RECURSIVE TaggablePrefix(_)
TaggablePrefix(data) ==
    IF data = <<>> \/ Head(data).kind # "rec" THEN <<>>
    ELSE <<Head(data)>> \o TaggablePrefix(Tail(data))

\* does the try block of one loop iteration raise?
LoadRaises(file) ==
    \/ file.kind \in {"unreadable", "badjson"}
    \/ \E i \in 1..Len(file.data) : file.data[i].kind # "rec"

\* what one loop iteration appends to all_results: every element reached
\* before an exception, tagged (elements appended before the exception stay)
LoadedFrom(dirname, file) ==
    IF file.kind \in {"unreadable", "badjson"} THEN <<>>
    ELSE LET reached == TaggablePrefix(file.data)
         IN  [i \in 1..Len(reached) |-> Tag(reached[i], TimestampStr(dirname))]

-----------------------------------------------------------------------------
(* analyze_convergence_trends *)

\* key = f"{result['device']}-{result['interface']}"
Key(result) == <<result.device, "-", result.interface>>

\* 'convergence_time' in result
HasTime(result) == result.convergence_time # <<>>

Measurement(result) ==
    [timestamp |-> result.test_run[1],
     time      |-> result.convergence_time[1],
     status    |-> result.status]

\* by_interface[key].append(...): a defaultdict(list), kept as the sequence of
\* its items in insertion order
AppendMeasurement(by, result) ==
    IF ~HasTime(result) THEN by
    ELSE IF \E i \in 1..Len(by) : by[i].key = Key(result)
    THEN [i \in 1..Len(by) |->
            IF by[i].key = Key(result)
            THEN [by[i] EXCEPT !.measurements = Append(@, Measurement(result))]
            ELSE by[i]]
    ELSE Append(by, [key |-> Key(result),
                     measurements |-> <<Measurement(result)>>])

RECURSIVE ByInterface(_)
ByInterface(results) ==
    IF results = <<>> THEN <<>>
    ELSE AppendMeasurement(ByInterface(Take(results, Len(results) - 1)),
                           results[Len(results)])

\* mutant: the threshold off by one (< 1)
TooFew_OffByOne(measurements) == Len(measurements) < 1

\* if len(measurements) < 2: continue
TooFew(measurements) == Len(measurements) < 2

\* mutant: the midpoint rounded up
Mid_Ceil(times) == (Len(times) + 1) \div 2

\* len(times) // 2
Mid(times) == Len(times) \div 2

\* mutant: the divisor off by one
Average_OffByOne(times) == FDiv(FSum(times), RatOfInt(Len(times) + 1))

\* sum(times) / len(times)
Average(times) == FDiv(FSum(times), RatOfInt(Len(times)))

FirstHalf(times) ==
    FDiv(FSum(Take(times, Mid(times))), RatOfInt(Mid(times)))

\* mutant: the second half's sum divided by the whole length
SecondHalf_WholeLength(times) ==
    FDiv(FSum(Drop(times, Len(times) \div 2)), RatOfInt(Len(times)))

\* the later half taken from the start of the list
SecondHalf_FromStart(times) ==
    FDiv(FSum(Take(times, Len(times) - Mid(times))),
         RatOfInt(Len(times) - Mid(times)))

SecondHalf(times) ==
    FDiv(FSum(Drop(times, Mid(times))), RatOfInt(Len(times) - Mid(times)))

\* mutant: the two comparisons swapped
Classify_Swapped(first_half, second_half) ==
    IF RatLess(second_half, first_half) THEN "DEGRADING"
    ELSE IF RatLess(first_half, second_half) THEN "IMPROVING"
    ELSE "STABLE"

Classify(first_half, second_half) ==
    IF RatLess(second_half, first_half) THEN "IMPROVING"
    ELSE IF RatLess(first_half, second_half) THEN "DEGRADING"
    ELSE "STABLE"

TrendEntry(item) ==
    LET times == [i \in 1..Len(item.measurements) |-> item.measurements[i].time]
    IN  [key            |-> item.key,
         measurements   |-> Len(item.measurements),
         average        |-> Average(times),
         min            |-> Min(times),
         max            |-> Max(times),
         first_half_avg |-> FirstHalf(times),
         second_half_avg|-> SecondHalf(times),
         trend          |-> Classify(FirstHalf(times), SecondHalf(times)),
         data           |-> item.measurements]

\* the trends dict, as the sequence of its items in insertion order
AnalyzeConvergenceTrends(results) ==
    LET kept == SelectSeq(ByInterface(results),
                          LAMBDA item : ~TooFew(item.measurements))
    IN  [i \in 1..Len(kept) |-> TrendEntry(kept[i])]

-----------------------------------------------------------------------------
(* analyze_stability *)

\* mutant: only the status FAILED counts as failed
StatusCounter_FailedOnly(result) ==
    IF result.status = "PASSED" THEN "passed"
    ELSE IF result.status = "PARTIAL" THEN "partial"
    ELSE IF result.status = "FAILED" THEN "failed"
    ELSE "none"

\* the status branch of the loop body: which counter the record increments
StatusCounter(result) ==
    IF result.status = "PASSED" THEN "passed"
    ELSE IF result.status = "PARTIAL" THEN "partial"
    ELSE "failed"

CountStatus(results, counter) ==
    Cardinality({i \in 1..Len(results) : StatusCounter(results[i]) = counter})

\* mutant: a baseline neighbor missing from final_neighbors counts as a change
NeighborChanges_CountsLost(result) ==
    IF result.baseline_neighbors # <<>> /\ result.final_neighbors # <<>>
    THEN LET baseline == result.baseline_neighbors[1]
             final    == result.final_neighbors[1]
         IN  Cardinality({n \in DOMAIN baseline :
                             \/ n \notin DOMAIN final
                             \/ baseline[n].state # final[n].state})
    ELSE 0

\* the DR/BDR block of the loop body: how much one record adds
NeighborChanges(result) ==
    IF result.baseline_neighbors # <<>> /\ result.final_neighbors # <<>>
    THEN LET baseline == result.baseline_neighbors[1]
             final    == result.final_neighbors[1]
         IN  Cardinality({n \in DOMAIN baseline :
                             /\ n \in DOMAIN final
                             /\ baseline[n].state # final[n].state})
    ELSE 0

RECURSIVE DrBdrChanges(_)
DrBdrChanges(results) ==
    IF results = <<>> THEN 0
    ELSE NeighborChanges(Head(results)) + DrBdrChanges(Tail(results))

\* mutant: a record without convergence_time contributes a time of 0
ConvergenceTimes_AbsentAsZero(results) ==
    [i \in 1..Len(results) |->
        IF HasTime(results[i]) THEN results[i].convergence_time[1]
        ELSE RatOfInt(0)]

\* mutant: only the times of keys that have at least two samples
ConvergenceTimes_TrendKeysOnly(results) ==
    LET timed == SelectSeq(results, HasTime)
        kept  == SelectSeq(timed, LAMBDA r :
                    Len(SelectSeq(timed, LAMBDA q : Key(q) = Key(r))) >= 2)
    IN  [i \in 1..Len(kept) |-> kept[i].convergence_time[1]]

\* convergence_times, in record order
ConvergenceTimes(results) ==
    LET timed == SelectSeq(results, HasTime)
    IN  [i \in 1..Len(timed) |-> timed[i].convergence_time[1]]

AvgConvergence(times) ==
    IF times # <<>> THEN FDiv(FSum(times), RatOfInt(Len(times)))
    ELSE RatOfInt(0)

\* the number of runs the records come from, not the number of records
TotalTests_RunsOnly(results) ==
    Cardinality({ results[i].test_run : i \in 1..Len(results) })

\* 'total_tests': len(all_results)
TotalTests(results) == Len(results)

AnalyzeStability(results) ==
    [total_tests     |-> TotalTests(results),
     passed          |-> CountStatus(results, "passed"),
     partial         |-> CountStatus(results, "partial"),
     failed          |-> CountStatus(results, "failed"),
     dr_bdr_changes  |-> DrBdrChanges(results),
     avg_convergence |-> AvgConvergence(ConvergenceTimes(results))]

-----------------------------------------------------------------------------
(* generate_trend_report *)

\* The report is the sequence of its lines; a line is a tuple, its label
\* first and the values the f-string prints after it.

\* f"{x:.1f}" and f"{x:.2f}" of a quotient: the printed number in tenths,
\* in hundredths
Fmt1(x) == RoundHalfEven(x[1] * 10, x[2])
Fmt2(x) == RoundHalfEven(x[1] * 100, x[2])

\* f"{count / total_tests * 100:.1f}"
Pct(count, total) == Fmt1(Frac(count * 100, total))

\* (a - b) / base * 100 on quotients, a >= b, base > 0
RelChange(a, b, base) ==
    Frac((a[1] * b[2] - b[1] * a[2]) * base[2] * 100, a[2] * b[2] * base[1])

\* ASCII order of the device and interface names the inputs use
NameRank(s) ==
    CASE s = "-" -> 0
      [] s = "GigabitEthernet0/1" -> 1
      [] s = "GigabitEthernet0/2" -> 2
      [] s = "R1" -> 3
      [] s = "R2" -> 4

RECURSIVE KeyLess(_, _)
KeyLess(a, b) ==
    IF b = <<>> THEN FALSE
    ELSE IF a = <<>> THEN TRUE
    ELSE IF Head(a) # Head(b) THEN NameRank(Head(a)) < NameRank(Head(b))
    ELSE KeyLess(Tail(a), Tail(b))

\* the items in the order of insertion into the dict, not sorted
SortedItems_InsertionOrder(items) == items

\* sorted(trends.items()): keys are unique, so the key alone orders the items
RECURSIVE SortedItems(_)
SortedItems(items) ==
    IF items = <<>> THEN <<>>
    ELSE LET i == CHOOSE i \in 1..Len(items) :
                    \A j \in 1..Len(items) :
                        j # i => KeyLess(items[i].key, items[j].key)
         IN  <<items[i]>> \o
             SortedItems(SelectSeq(items, LAMBDA t : t.key # items[i].key))

\* a header that carries the time of rendering in its title line as well
HeaderLines_StampedTitle(now) ==
    << <<"====">>, <<"OSPF FLAP TEST - TREND ANALYSIS REPORT", now>>,
       <<"====">>, <<"Generated", now>>, <<"">> >>

\* the header; now is datetime.now() formatted to the second
HeaderLines(now) ==
    << <<"====">>, <<"OSPF FLAP TEST - TREND ANALYSIS REPORT">>, <<"====">>,
       <<"Generated", now>>, <<"">> >>

StabilityLines(st) ==
    << <<"OVERALL STABILITY">>, <<"----">>,
       <<"Total Test Runs", st.total_tests>>,
       <<"Passed", st.passed, Pct(st.passed, st.total_tests)>>,
       <<"Partial", st.partial, Pct(st.partial, st.total_tests)>>,
       <<"Failed", st.failed, Pct(st.failed, st.total_tests)>>,
       <<"DR/BDR Changes", st.dr_bdr_changes>>,
       <<"Avg Convergence", Fmt2(st.avg_convergence)>>,
       <<"">> >>

TrendBlock(t) ==
    << <<"Interface", t.key>>,
       <<"Measurements", t.measurements>>,
       <<"Average", Fmt2(t.average)>>,
       <<"Min", Fmt2(t.min)>>,
       <<"Max", Fmt2(t.max)>>,
       <<"Trend", t.trend>> >>
    \o (IF t.trend = "IMPROVING"
        THEN << <<"Improvement",
                  Fmt1(RelChange(t.first_half_avg, t.second_half_avg,
                                 t.first_half_avg))>> >>
        ELSE IF t.trend = "DEGRADING"
        THEN << <<"Degradation",
                  Fmt1(RelChange(t.second_half_avg, t.first_half_avg,
                                 t.first_half_avg))>> >>
        ELSE <<>>)

TrendLines(tr) ==
    << <<"CONVERGENCE TRENDS BY INTERFACE">>, <<"----">> >>
    \o Flatten([i \in 1..Len(tr) |-> TrendBlock(SortedItems(tr)[i])])
    \o << <<"">> >>

\* degrading_interfaces, in the dict's order
DegradingInterfaces(tr) ==
    LET d == SelectSeq(tr, LAMBDA t : t.trend = "DEGRADING")
    IN  [i \in 1..Len(d) |-> d[i].key]

\* len(stability): the number of keys of the summary dict
StabilityLen == 6

\* the threshold taken as 30% of the number of tests
HighInstability_OfTotalTests(st) == st.dr_bdr_changes * 10 > st.total_tests * 3

\* stability['dr_bdr_changes'] > len(stability) * 0.3
HighInstability(st) == st.dr_bdr_changes * 10 > StabilityLen * 3

\* stability['avg_convergence'] > 10
SlaSeconds == 10
SlowConvergence(st) == RatLess(RatOfInt(SlaSeconds), st.avg_convergence)

\* recommendations whose success line stands for the absence of every warning
RecommendationLines_SuccessOtherwise(tr, st) ==
    << <<"TREND-BASED RECOMMENDATIONS">>, <<"----">> >>
    \o (IF DegradingInterfaces(tr) # <<>>
        THEN << <<"WARNING: Performance degradation detected">> >>
             \o [i \in 1..Len(DegradingInterfaces(tr)) |->
                    <<"-", DegradingInterfaces(tr)[i]>>]
             \o << <<"Action: Investigate">> >>
        ELSE <<>>)
    \o (IF HighInstability(st)
        THEN << <<"WARNING: High DR/BDR role instability">>,
                <<"Action: Consider setting OSPF priorities">> >>
        ELSE <<>>)
    \o (IF SlowConvergence(st)
        THEN << <<"WARNING: Convergence time exceeds 10 seconds">>,
                <<"Action: Tune OSPF timers">> >>
        ELSE <<>>)
    \o (IF DegradingInterfaces(tr) = <<>> /\ ~HighInstability(st)
           /\ ~SlowConvergence(st)
        THEN << <<"Network performance is stable with no degradation">> >>
        ELSE <<>>)
    \o << <<"">>, <<"====">> >>

RecommendationLines(tr, st) ==
    << <<"TREND-BASED RECOMMENDATIONS">>, <<"----">> >>
    \o (IF DegradingInterfaces(tr) # <<>>
        THEN << <<"WARNING: Performance degradation detected">> >>
             \o [i \in 1..Len(DegradingInterfaces(tr)) |->
                    <<"-", DegradingInterfaces(tr)[i]>>]
             \o << <<"Action: Investigate">> >>
        ELSE <<>>)
    \o (IF HighInstability(st)
        THEN << <<"WARNING: High DR/BDR role instability">>,
                <<"Action: Consider setting OSPF priorities">> >>
        ELSE <<>>)
    \o (IF SlowConvergence(st)
        THEN << <<"WARNING: Convergence time exceeds 10 seconds">>,
                <<"Action: Tune OSPF timers">> >>
        ELSE <<>>)
    \o (IF DegradingInterfaces(tr) = <<>> /\ st.failed = 0
        THEN << <<"Network performance is stable with no degradation">> >>
        ELSE <<>>)
    \o << <<"">>, <<"====">> >>

\* the divisions of the rendering that raise ZeroDivisionError
ReportRaises(tr, st) ==
    \/ st.total_tests = 0
    \/ \E i \in 1..Len(tr) :
          tr[i].trend = "DEGRADING" /\ tr[i].first_half_avg[1] = 0

GenerateTrendReport(tr, st, now) ==
    HeaderLines(now) \o StabilityLines(st) \o TrendLines(tr)
    \o RecommendationLines(tr, st)

-----------------------------------------------------------------------------
(* Inputs: the results directories the analyzer is run on *)

\* one element of a result file that is a JSON object
Rec(device, interface, status, time, baseline, final) ==
    [kind |-> "rec", device |-> device, interface |-> interface,
     status |-> status, convergence_time |-> time,
     baseline_neighbors |-> baseline, final_neighbors |-> final,
     test_run |-> <<>>]

\* one element that is no JSON object (a number, a string, null)
Scalar ==
    [kind |-> "scalar", device |-> "", interface |-> "", status |-> "",
     convergence_time |-> <<>>, baseline_neighbors |-> <<>>,
     final_neighbors |-> <<>>, test_run |-> <<>>]

ListFile(data) == [kind |-> "list", data |-> data]
OtherFile(kind) == [kind |-> kind, data |-> <<>>]

\* the (device, interface) pairs under test
Configs == { <<"R1", "GigabitEthernet0/1">>, <<"R1", "GigabitEthernet0/2">> }

Nbr(state) == [state |-> state, interface |-> "GigabitEthernet0/1"]
TableDrBdr == ("10.0.0.2" :> Nbr("FULL/DR")) @@ ("10.0.0.3" :> Nbr("FULL/BDR"))
TableBdrDr == ("10.0.0.2" :> Nbr("FULL/BDR")) @@ ("10.0.0.3" :> Nbr("FULL/DR"))
TableBdr   == ("10.0.0.2" :> Nbr("FULL/BDR"))
TableDr    == ("10.0.0.2" :> Nbr("FULL/DR"))

\* a record as the flap test writes it: converged (PASSED, with the time and
\* both tables) or not (FAILED, baseline only)
SeriesRec(config, time) ==
    IF time = <<>>
    THEN Rec(config[1], config[2], "FAILED", <<>>, <<TableDrBdr>>, <<>>)
    ELSE Rec(config[1], config[2], "PASSED", <<RatOfInt(time[1])>>,
             <<TableDrBdr>>, <<TableDrBdr>>)

SeriesTimes == { <<>>, <<6>>, <<12>> }
SeriesRecs == { SeriesRec(c, t) : c \in Configs, t \in SeriesTimes }

StatusValues == { "PASSED", "PARTIAL", "FAILED", "ERROR" }
StatusRecs ==
    { Rec("R1", "GigabitEthernet0/1", st,
          IF st \in {"PASSED", "PARTIAL"} THEN <<RatOfInt(20)>> ELSE <<>>,
          <<>>, <<>>) :
      st \in StatusValues }

\* baseline and final tables: absent, equal, roles swapped, a neighbor lost,
\* a neighbor gained
NeighborCases ==
    { << <<>>, <<>> >>, << <<TableDrBdr>>, <<>> >>, << <<>>, <<TableDrBdr>> >>,
      << <<TableDrBdr>>, <<TableDrBdr>> >>, << <<TableDrBdr>>, <<TableBdrDr>> >>,
      << <<TableDrBdr>>, <<TableBdr>> >>, << <<TableDr>>, <<TableBdrDr>> >> }
NeighborRecs ==
    { Rec("R2", "GigabitEthernet0/1", "PARTIAL", <<RatOfInt(0)>>, c[1], c[2]) :
      c \in NeighborCases }

SeqsUpTo(S, n) == UNION { [1..k -> S] : k \in 0..n }

\* run directory number i, named like ospf_flap_<timestamp>
RunName(i) == <<PFX, i>>

\* the records of `flat` written `per_run` to a run, in order
Chunk(flat, per_run, i) ==
    SubSeq(flat, (i - 1) * per_run + 1,
           IF i * per_run < Len(flat) THEN i * per_run ELSE Len(flat))

RunsOf(flat, per_run) ==
    LET n == (Len(flat) + per_run - 1) \div per_run
    IN  [d \in { RunName(i) : i \in 1..n } |->
            ListFile(Chunk(flat, per_run, d[2]))]

Dir(runs) == [exists |-> TRUE, runs |-> runs]
NoDir == [exists |-> FALSE, runs |-> <<>>]

\* a series of records, one or two written per run
SeriesDirs ==
    { Dir(RunsOf(flat, per_run)) :
        flat \in SeqsUpTo(SeriesRecs, MaxSeries), per_run \in {1, 2} }

\* the series of the documented examples, and one that starts with a
\* convergence time of zero; one record per run
ExampleSeries ==
    { <<10, 10, 5, 5>>, <<5, 5, 10, 10>>, <<5, 5, 5, 5>>, <<0, 5>> }
ExampleDirs ==
    { Dir(RunsOf([i \in 1..Len(ts) |->
                    SeriesRec(<<"R1", "GigabitEthernet0/1">>, <<ts[i]>>)], 1)) :
        ts \in ExampleSeries }

\* one run holding records of every status
StatusDirs ==
    { Dir(RunsOf(flat, Max2(Len(flat), 1))) :
        flat \in SeqsUpTo(StatusRecs, MaxRecs + 1) }

\* one run holding records with assorted neighbor tables
NeighborDirs ==
    { Dir(RunsOf(flat, Max2(Len(flat), 1))) :
        flat \in SeqsUpTo(NeighborRecs, MaxRecs) }

\* directories of assorted names holding assorted files
ShapeNames == { <<PFX, 1>>, <<PFX, 2>>, <<PFX, PFX, 1>>, <<1>> }
ShapeRec1 == SeriesRec(<<"R1", "GigabitEthernet0/1">>, <<5>>)
ShapeRec2 == SeriesRec(<<"R1", "GigabitEthernet0/2">>, <<>>)
ShapeFiles ==
    { ListFile(<<ShapeRec1, ShapeRec2>>), ListFile(<<>>),
      ListFile(<<ShapeRec1, Scalar, ShapeRec2>>), ListFile(<<Scalar>>),
      OtherFile("badjson"), OtherFile("unreadable"), OtherFile("nofile") }
ShapeDirs ==
    { Dir(runs) : runs \in UNION { [names -> ShapeFiles] :
        names \in { N \in SUBSET ShapeNames : Cardinality(N) <= MaxDirs } } }

Inputs ==
    ({ <<"results">> } \X (SeriesDirs \cup ExampleDirs \cup StatusDirs
                           \cup NeighborDirs \cup ShapeDirs \cup {NoDir}))
    \cup { << <<>>, NoDir >> }

-----------------------------------------------------------------------------
(* main *)

\* the values datetime.now() may return while the report is rendered
Clock == { "t1", "t2" }

NoStability ==
    [total_tests |-> 0, passed |-> 0, partial |-> 0, failed |-> 0,
     dr_bdr_changes |-> 0, avg_convergence |-> RatOfInt(0)]

\* the connect subsection is not part of a run of the analyzer
ConnOff ==
    /\ devices = {}
    /\ max_workers = 1
    /\ future = <<>>
    /\ yielded = {}
    /\ connected = <<>>
    /\ failed = <<>>
    /\ section = "off"

\* the flap test is not part of the run
FlapOff ==
    /\ test_configs = <<>>
    /\ convergence_timeout = 0
    /\ export_results = FALSE
    /\ fpc = "off"
    /\ cfg_idx = 0
    /\ test_result = <<>>
    /\ test_results = <<>>
    /\ baseline_neighbors = <<>>
    /\ current_neighbors = <<>>
    /\ converged = FALSE
    /\ elapsed = 0
    /\ pushed = <<>>
    /\ results_file = <<>>

Init ==
    /\ \E in \in Inputs : argv = in[1] /\ fs = in[2]
    /\ pc = "start"
    /\ json_files = <<>>
    /\ file_idx = 0
    /\ all_results = <<>>
    /\ warned = <<>>
    /\ trends = <<>>
    /\ stability = NoStability
    /\ report = <<>>
    /\ stdout = <<>>
    /\ written = <<>>
    /\ exit_code = -1
    /\ ConnOff
    /\ FlapOff

\* sys.exit(code), or the interpreter ending after an uncaught exception
Exit(state, code, message) ==
    /\ pc' = state
    /\ exit_code' = code
    /\ stdout' = Append(stdout, message)

\* if len(sys.argv) < 2: usage, sys.exit(1)
CheckArgs ==
    /\ pc = "start"
    /\ \/ /\ argv = <<>>
          /\ Exit("exited", 1, "Usage")
       \/ /\ argv # <<>>
          /\ pc' = "find"
          /\ UNCHANGED <<stdout, exit_code>>
    /\ UNCHANGED <<argv, fs, json_files, file_idx, all_results, warned,
                   trends, stability, report, written>>
    /\ UNCHANGED <<connvars, flapvars>>

\* a glob that takes the result file of every subdirectory
Glob_AnyDir(dir) ==
    { d \in DOMAIN dir.runs : dir.runs[d].kind # "nofile" }

\* results_path.glob("ospf_flap_*/ospf_flap_results.json")
Glob(dir) ==
    { d \in DOMAIN dir.runs : Head(d) = PFX /\ dir.runs[d].kind # "nofile" }

FindAllResultFiles(dir) ==
    IF ~dir.exists THEN <<>> ELSE SortedNames(Glob(dir))

\* json_files = find_all_result_files(results_dir), and the check after it
FindFiles ==
    /\ pc = "find"
    /\ json_files' = FindAllResultFiles(fs)
    /\ \/ /\ json_files' = <<>>
          /\ Exit("exited", 1, "No test result files found")
       \/ /\ json_files' # <<>>
          /\ pc' = "load"
          /\ stdout' = Append(stdout, "Found")
          /\ UNCHANGED exit_code
    /\ UNCHANGED <<argv, fs, file_idx, all_results, warned, trends,
                   stability, report, written>>
    /\ UNCHANGED <<connvars, flapvars>>

\* one iteration of load_all_results' loop over json_files
LoadFile ==
    /\ pc = "load"
    /\ file_idx < Len(json_files)
    /\ LET dirname == json_files[file_idx + 1]
           file    == fs.runs[dirname]
       IN  /\ all_results' = all_results \o LoadedFrom(dirname, file)
           /\ warned' = IF LoadRaises(file) THEN Append(warned, dirname)
                        ELSE warned
    /\ file_idx' = file_idx + 1
    /\ UNCHANGED <<argv, fs, pc, json_files, trends, stability, report,
                   stdout, written, exit_code>>
    /\ UNCHANGED <<connvars, flapvars>>

\* the analysis starts while files of the list are still unread
LoadDone_BeforeEnd ==
    /\ pc = "load"
    /\ file_idx <= Len(json_files)
    /\ pc' = "trends"
    /\ stdout' = Append(stdout, "Loaded")
    /\ UNCHANGED <<argv, fs, json_files, file_idx, all_results, warned,
                   trends, stability, report, written, exit_code>>
    /\ UNCHANGED <<connvars, flapvars>>

\* load_all_results returns; main prints the count
LoadDone ==
    /\ pc = "load"
    /\ file_idx = Len(json_files)
    /\ pc' = "trends"
    /\ stdout' = Append(stdout, "Loaded")
    /\ UNCHANGED <<argv, fs, json_files, file_idx, all_results, warned,
                   trends, stability, report, written, exit_code>>
    /\ UNCHANGED <<connvars, flapvars>>

\* trends = analyze_convergence_trends(all_results)
AnalyzeTrends ==
    /\ pc = "trends"
    /\ trends' = AnalyzeConvergenceTrends(all_results)
    /\ pc' = "stability"
    /\ UNCHANGED <<argv, fs, json_files, file_idx, all_results, warned,
                   stability, report, stdout, written, exit_code>>
    /\ UNCHANGED <<connvars, flapvars>>

\* stability = analyze_stability(all_results)
AnalyzeStab ==
    /\ pc = "stability"
    /\ stability' = AnalyzeStability(all_results)
    /\ pc' = "report"
    /\ UNCHANGED <<argv, fs, json_files, file_idx, all_results, warned,
                   trends, report, stdout, written, exit_code>>
    /\ UNCHANGED <<connvars, flapvars>>

\* report = generate_trend_report(trends, stability); print(report)
GenerateReport ==
    /\ pc = "report"
    /\ \/ /\ ReportRaises(trends, stability)
          /\ Exit("crashed", 1, "Traceback: ZeroDivisionError")
          /\ UNCHANGED report
       \/ /\ ~ReportRaises(trends, stability)
          /\ \E now \in Clock :
                report' = GenerateTrendReport(trends, stability, now)
          /\ pc' = "save_report"
          /\ stdout' = Append(stdout, "Report")
          /\ UNCHANGED exit_code
    /\ UNCHANGED <<argv, fs, json_files, file_idx, all_results, warned,
                   trends, stability, written>>
    /\ UNCHANGED <<connvars, flapvars>>

\* with open(report_file, 'w') as f: f.write(report)
WriteReport ==
    /\ pc = "save_report"
    /\ written' = Append(written, "trend_analysis.txt")
    /\ stdout' = Append(stdout, "Trend report saved")
    /\ pc' = "save_chart"
    /\ UNCHANGED <<argv, fs, json_files, file_idx, all_results, warned,
                   trends, stability, report, exit_code>>
    /\ UNCHANGED <<connvars, flapvars>>

\* a chart for every run, also one without a trend key
ChartWanted_Always(tr) == TRUE

\* `if trends:`, the truth value of the trend map
ChartWanted(tr) == tr # <<>>

\* if trends: write trend_chart.html
WriteChart ==
    /\ pc = "save_chart"
    /\ \/ /\ ChartWanted(trends)
          /\ written' = Append(written, "trend_chart.html")
          /\ stdout' = Append(stdout, "Trend chart saved")
       \/ /\ ~ChartWanted(trends)
          /\ UNCHANGED <<written, stdout>>
    /\ pc' = "finish"
    /\ UNCHANGED <<argv, fs, json_files, file_idx, all_results, warned,
                   trends, stability, report, exit_code>>
    /\ UNCHANGED <<connvars, flapvars>>

\* the last print; main returns and the process ends with status 0
Finish ==
    /\ pc = "finish"
    /\ Exit("done", 0, "Trend analysis complete")
    /\ UNCHANGED <<argv, fs, json_files, file_idx, all_results, warned,
                   trends, stability, report, written>>
    /\ UNCHANGED <<connvars, flapvars>>

Next ==
    \/ CheckArgs
    \/ FindFiles
    \/ LoadFile
    \/ LoadDone
    \/ AnalyzeTrends
    \/ AnalyzeStab
    \/ GenerateReport
    \/ WriteReport
    \/ WriteChart
    \/ Finish

Spec == Init /\ [][Next]_vars

-----------------------------------------------------------------------------
(* Properties *)

\* main has passed the call of analyze_convergence_trends, of analyze_stability
TrendsDone ==
    pc \in {"stability", "report", "save_report", "save_chart", "finish",
            "done", "crashed"}
StabDone ==
    pc \in {"report", "save_report", "save_chart", "finish", "done", "crashed"}
\* load_all_results has returned
LoadReturned == pc = "trends" \/ TrendsDone

KeyOf(r) == <<r.device, "-", r.interface>>
Timed(r) == r.convergence_time # <<>>

\* the loaded records of key k that carry a convergence_time, in order
TimedOf(k) == SelectSeq(all_results, LAMBDA r : Timed(r) /\ KeyOf(r) = k)
TimesOfKey(k) ==
    [i \in 1..Len(TimedOf(k)) |-> TimedOf(k)[i].convergence_time[1]]
AllTimed == SelectSeq(all_results, Timed)
AllTimes == [i \in 1..Len(AllTimed) |-> AllTimed[i].convergence_time[1]]

InTrendMap(k) == \E i \in 1..Len(trends) : trends[i].key = k
KeysSeen ==
    { KeyOf(all_results[i]) : i \in 1..Len(all_results) }
    \cup { trends[i].key : i \in 1..Len(trends) }

\* the mean as Python computes it: the float sum divided by the count
FloatMean(ts) == FDiv(FSum(ts), RatOfInt(Len(ts)))
RatLeq(p, q) == p[1] * q[2] <= q[1] * p[2]

\* C1: the trend map holds a key if and only if at least 2 loaded records of
\* that key carry a convergence_time (each key at most once); a key with 0 or
\* 1 such samples is not in the map.
C1_TrendMapKeys ==
    TrendsDone =>
        /\ \A k \in KeysSeen : InTrendMap(k) <=> Len(TimedOf(k)) >= 2
        /\ \A i, j \in 1..Len(trends) :
              trends[i].key = trends[j].key => i = j

\* a key with at least two samples is in the map while a key with exactly
\* one sample is left out
C1_Witness ==
    /\ TrendsDone
    /\ \E k \in KeysSeen : InTrendMap(k)
    /\ \E k \in KeysSeen : Len(TimedOf(k)) = 1 /\ ~InTrendMap(k)

\* C2: for every entry of the trend map, trend is DEGRADING exactly when
\* second_half_avg > first_half_avg, IMPROVING exactly when it is smaller,
\* STABLE exactly when the two are equal.
C2_TrendClassification ==
    TrendsDone =>
        \A i \in 1..Len(trends) :
            LET f == trends[i].first_half_avg
                g == trends[i].second_half_avg
            IN  /\ trends[i].trend \in {"IMPROVING", "DEGRADING", "STABLE"}
                /\ trends[i].trend = "DEGRADING" <=> g[1] * f[2] > f[1] * g[2]
                /\ trends[i].trend = "IMPROVING" <=> g[1] * f[2] < f[1] * g[2]
                /\ trends[i].trend = "STABLE" <=> g[1] * f[2] = f[1] * g[2]

C2_Witness ==
    /\ TrendsDone
    /\ \E i, j \in 1..Len(trends) :
          /\ trends[i].trend = "DEGRADING"
          /\ trends[j].trend \in {"IMPROVING", "STABLE"}

\* C3: for a key with n >= 2 samples, first_half_avg is the mean of the first
\* floor(n/2) samples and second_half_avg the mean of the other n - floor(n/2);
\* both halves are non-empty and for odd n the middle sample is in the second.
C3_HalfMeans ==
    TrendsDone =>
        \A i \in 1..Len(trends) :
            LET ts == TimesOfKey(trends[i].key)
                n  == Len(ts)
                h  == n \div 2
            IN  /\ n >= 2 /\ h >= 1 /\ n - h >= 1
                /\ n % 2 = 1 => n - h = h + 1
                /\ trends[i].first_half_avg = FloatMean(SubSeq(ts, 1, h))
                /\ trends[i].second_half_avg = FloatMean(SubSeq(ts, h + 1, n))

\* an odd number of samples whose middle sample decides the second half
C3_Witness ==
    /\ TrendsDone
    /\ \E i \in 1..Len(trends) :
          LET ts == TimesOfKey(trends[i].key)
          IN  /\ Len(ts) = 3
              /\ ts[1] = ts[3] /\ ts[2] # ts[1]
              /\ trends[i].second_half_avg # trends[i].first_half_avg

\* C4: a key whose samples are [a, a, b, b] has first_half_avg = a and
\* second_half_avg = b, and trend IMPROVING when a > b, DEGRADING when a < b,
\* STABLE when a = b.
C4_TwoAndTwo ==
    TrendsDone =>
        \A i \in 1..Len(trends) :
            LET ts == TimesOfKey(trends[i].key)
            IN  (Len(ts) = 4 /\ ts[1] = ts[2] /\ ts[3] = ts[4]) =>
                    /\ trends[i].first_half_avg = ts[1]
                    /\ trends[i].second_half_avg = ts[3]
                    /\ RatLess(ts[3], ts[1]) => trends[i].trend = "IMPROVING"
                    /\ RatLess(ts[1], ts[3]) => trends[i].trend = "DEGRADING"
                    /\ ts[1] = ts[3] => trends[i].trend = "STABLE"

\* the documented example: times [10, 10, 5, 5]
C4_Witness ==
    /\ TrendsDone
    /\ \E i \in 1..Len(trends) :
          /\ TimesOfKey(trends[i].key) =
                <<RatOfInt(10), RatOfInt(10), RatOfInt(5), RatOfInt(5)>>
          /\ trends[i].first_half_avg = RatOfInt(10)
          /\ trends[i].second_half_avg = RatOfInt(5)
          /\ trends[i].trend = "IMPROVING"

\* the sum of a list of numbers as a real number
RECURSIVE ExactSum(_)
ExactSum(ts) ==
    IF ts = <<>> THEN RatOfInt(0)
    ELSE LET r == ExactSum(Tail(ts))
         IN  Frac(ts[1][1] * r[2] + r[1] * ts[1][2], ts[1][2] * r[2])

IsSmallest(m, ts) ==
    (\E i \in 1..Len(ts) : ts[i] = m) /\ \A i \in 1..Len(ts) : RatLeq(m, ts[i])
IsLargest(m, ts) ==
    (\E i \in 1..Len(ts) : ts[i] = m) /\ \A i \in 1..Len(ts) : RatLeq(ts[i], m)

\* the computed average is the real mean: neither the sum nor the quotient
\* was rounded
ExactAverage(e, ts) ==
    Frac(e.average[1] * Len(ts), e.average[2]) = ExactSum(ts)

\* C5 as stated: average is the sum of the key's times divided by
\* measurements, min the smallest and max the largest time, and
\* min <= average <= max.
C5_Original ==
    TrendsDone =>
        \A i \in 1..Len(trends) :
            LET e  == trends[i]
                ts == TimesOfKey(e.key)
            IN  /\ e.measurements = Len(ts)
                /\ e.average = FloatMean(ts)
                /\ IsSmallest(e.min, ts) /\ IsLargest(e.max, ts)
                /\ RatLeq(e.min, e.average) /\ RatLeq(e.average, e.max)

\* C5, amended: average is the float quotient of the float sum of the key's
\* times by measurements, min the smallest and max the largest time, and
\* min <= average <= max whenever the average was computed without rounding.
C5_AverageMinMax ==
    TrendsDone =>
        \A i \in 1..Len(trends) :
            LET e  == trends[i]
                ts == TimesOfKey(e.key)
            IN  /\ e.measurements = Len(ts)
                /\ e.average = FloatMean(ts)
                /\ IsSmallest(e.min, ts) /\ IsLargest(e.max, ts)
                /\ RatLeq(e.min, e.max)
                /\ ExactAverage(e, ts) =>
                      RatLeq(e.min, e.average) /\ RatLeq(e.average, e.max)

\* an exact average strictly between distinct min and max
C5_Witness ==
    /\ TrendsDone
    /\ \E i \in 1..Len(trends) :
          LET e == trends[i]
          IN  /\ ExactAverage(e, TimesOfKey(e.key))
              /\ RatLess(e.min, e.average) /\ RatLess(e.average, e.max)

\* C6: a record without convergence_time adds no sample to any trend entry
\* and nothing to avg_convergence (the convergence figures are those of the
\* records that carry a time), and it is counted in total_tests and in the
\* status counters.
C6_UntimedRecords ==
    StabDone =>
        /\ trends = AnalyzeConvergenceTrends(AllTimed)
        /\ \A i \in 1..Len(trends) :
              /\ trends[i].measurements = Len(TimedOf(trends[i].key))
              /\ Len(trends[i].data) = Len(TimedOf(trends[i].key))
        /\ stability.avg_convergence =
              AnalyzeStability(AllTimed).avg_convergence
        /\ stability.avg_convergence =
              (IF AllTimes = <<>> THEN RatOfInt(0) ELSE FloatMean(AllTimes))
        /\ stability.total_tests = Len(all_results)
        /\ stability.passed + stability.partial + stability.failed
              = Len(all_results)

\* a record without a time, of a key that is in the trend map
C6_Witness ==
    /\ StabDone
    /\ \E i \in 1..Len(all_results) :
          /\ ~Timed(all_results[i])
          /\ InTrendMap(KeyOf(all_results[i]))
    /\ stability.failed >= 1
    /\ stability.total_tests > Len(AllTimed)

StatusIs(S) == { i \in 1..Len(all_results) : all_results[i].status \in S }

\* the percentage a rendered report prints on the line `label`, in tenths
ReportedPct(label) ==
    LET i == CHOOSE i \in 1..Len(report) : report[i][1] = label
    IN  report[i][3]
ReportedPctSum ==
    ReportedPct("Passed") + ReportedPct("Partial") + ReportedPct("Failed")

\* p tenths of a percent is count / total * 100 rounded to one decimal
IsRoundedPct(p, count, total) ==
    LET d == p * total - count * 1000
    IN  (IF d >= 0 THEN d ELSE -d) * 2 <= total

CountsPartition ==
    /\ stability.passed = Cardinality(StatusIs({"PASSED"}))
    /\ stability.partial = Cardinality(StatusIs({"PARTIAL"}))
    /\ stability.failed =
          Cardinality((1..Len(all_results)) \ StatusIs({"PASSED", "PARTIAL"}))
    /\ stability.passed + stability.partial + stability.failed
          = stability.total_tests
    /\ stability.total_tests = Len(all_results)

\* C7 as stated: each record is counted in exactly one of passed, partial and
\* failed (any other status), so the three counters sum to total_tests, and
\* the three reported percentages sum to 100.
C7_Original ==
    /\ StabDone => CountsPartition
    /\ report # <<>> => ReportedPctSum = 1000

\* C7, amended: each record is counted in exactly one of passed, partial and
\* failed (any other status), so the three counters sum to total_tests; each
\* reported percentage is the counter's share rounded to one decimal, and the
\* three reported percentages sum to 100 within 0.1.
C7_StatusCounts ==
    /\ StabDone => CountsPartition
    /\ report # <<>> =>
          /\ IsRoundedPct(ReportedPct("Passed"), stability.passed,
                          stability.total_tests)
          /\ IsRoundedPct(ReportedPct("Partial"), stability.partial,
                          stability.total_tests)
          /\ IsRoundedPct(ReportedPct("Failed"), stability.failed,
                          stability.total_tests)
          /\ ReportedPctSum \in 999..1001

\* a rendered report over records of status PASSED, PARTIAL and ERROR
C7_Witness ==
    /\ report # <<>>
    /\ stability.passed >= 1 /\ stability.partial >= 1
    /\ \E i \in 1..Len(all_results) : all_results[i].status = "ERROR"
    /\ stability.failed >= 1

\* the neighbors of record i whose state differs between the two tables
ChangedNeighbors(i) ==
    LET r == all_results[i]
    IN  IF r.baseline_neighbors = <<>> \/ r.final_neighbors = <<>> THEN {}
        ELSE { n \in (DOMAIN r.baseline_neighbors[1])
                       \cap (DOMAIN r.final_neighbors[1]) :
                 r.baseline_neighbors[1][n].state
                    # r.final_neighbors[1][n].state }

\* C8: dr_bdr_changes is the number of (record, neighbor id) pairs where the
\* record has both tables, the id is in both, and its state differs; a
\* neighbor missing from final_neighbors or only in it adds nothing.
C8_DrBdrChanges ==
    StabDone =>
        stability.dr_bdr_changes =
            Cardinality({ p \in (1..Len(all_results)) \X {"10.0.0.2", "10.0.0.3"} :
                            p[2] \in ChangedNeighbors(p[1]) })

\* two records with changes, one that lost a neighbor, one that gained one
C8_Witness ==
    /\ StabDone
    /\ stability.dr_bdr_changes = 2
    /\ \E i, j \in 1..Len(all_results) :
          /\ all_results[i].baseline_neighbors # <<>>
          /\ all_results[i].final_neighbors # <<>>
          /\ all_results[j].baseline_neighbors # <<>>
          /\ all_results[j].final_neighbors # <<>>
          /\ \E n \in DOMAIN all_results[i].baseline_neighbors[1] :
                n \notin DOMAIN all_results[i].final_neighbors[1]
          /\ \E n \in DOMAIN all_results[j].final_neighbors[1] :
                n \notin DOMAIN all_results[j].baseline_neighbors[1]

\* C9: avg_convergence is the mean of the convergence_time of every record
\* that has one, whatever its key (also a key with a single sample, absent
\* from the trend map); it is 0 when no record has one.
C9_AvgConvergence ==
    StabDone =>
        stability.avg_convergence =
            (IF AllTimes = <<>> THEN RatOfInt(0) ELSE FloatMean(AllTimes))

\* a single-sample key, absent from the trend map, changes the mean
C9_Witness ==
    /\ StabDone
    /\ trends # <<>>
    /\ \E k \in KeysSeen :
          /\ Len(TimedOf(k)) = 1 /\ ~InTrendMap(k)
          /\ stability.avg_convergence
                # FloatMean(ConvergenceTimes_TrendKeysOnly(all_results))

\* the directory name with the 'ospf_flap_' prefix removed
StripPrefix(name) ==
    IF name # <<>> /\ Head(name) = PFX THEN Tail(name) ELSE name

\* the file loads: it is read, parsed, and every element can be tagged
Loadable(file) ==
    file.kind = "list" /\ \A i \in 1..Len(file.data) : file.data[i].kind = "rec"

RecordsOf(dirname) ==
    IF Loadable(fs.runs[dirname])
    THEN [i \in 1..Len(fs.runs[dirname].data) |->
            [fs.runs[dirname].data[i] EXCEPT !.test_run = <<StripPrefix(dirname)>>]]
    ELSE <<>>

\* C10 as stated: load_all_results returns the concatenation, in the order of
\* the file list, of each loadable file's records in their within-file order,
\* each with test_run set to the parent directory name without the prefix.
C10_Original ==
    LoadReturned =>
        all_results =
            Flatten([i \in 1..Len(json_files) |-> RecordsOf(json_files[i])])

\* what a file contributes when a raising file contributes nothing and any
\* other file contributes every element, tagged
AllOrNothing(dirname) ==
    IF LoadRaises(fs.runs[dirname]) THEN <<>>
    ELSE LoadedFrom(dirname, fs.runs[dirname])

Warned(dirname) == \E i \in 1..Len(warned) : warned[i] = dirname

\* C11 as stated: when loading a file raises (unreadable, invalid JSON, or an
\* element that cannot be tagged), the file contributes no record to the
\* aggregated sequence, a warning is emitted for it, and every other file of
\* the list is loaded in full.
C11_Original ==
    LoadReturned =>
        /\ \A i \in 1..Len(json_files) :
              LoadRaises(fs.runs[json_files[i]]) => Warned(json_files[i])
        /\ all_results =
              Flatten([i \in 1..Len(json_files) |-> AllOrNothing(json_files[i])])

Printed(message) == \E i \in 1..Len(stdout) : stdout[i] = message

\* main has called find_all_result_files and acted on what it returned
FindReturned == pc \notin {"start", "find"} /\ argv # <<>>

\* the directory is missing, or holds no ospf_flap_*/ospf_flap_results.json
NothingToFind ==
    \/ ~fs.exists
    \/ \A d \in DOMAIN fs.runs : Head(d) # PFX \/ fs.runs[d].kind = "nofile"

\* C12 as stated: when the results directory does not exist, or exists but
\* holds no matching file, the analyzer prints the usage message and exits
\* with a non-zero status.
C12_Original ==
    (FindReturned /\ NothingToFind) =>
        /\ pc = "exited"
        /\ exit_code > 0
        /\ Printed("Usage")


\* C12: when the results directory does not exist, or exists but holds no
\* file matching ospf_flap_*/ospf_flap_results.json, the analyzer prints
\* "No test result files found in <dir>" and exits with status 1; the usage
\* message is printed, also with status 1, exactly when no directory argument
\* was given.
C12_NoFilesExit ==
    /\ (FindReturned /\ NothingToFind) =>
          /\ pc = "exited"
          /\ exit_code = 1
          /\ Printed("No test result files found")
          /\ ~Printed("Usage")
    /\ Printed("Usage") <=> (argv = <<>> /\ pc = "exited" /\ exit_code = 1)
    /\ Printed("No test result files found") => NothingToFind

\* an existing directory whose only subdirectory does not match the pattern,
\* although it holds a result file
C12_Witness ==
    /\ FindReturned /\ pc = "exited"
    /\ fs.exists
    /\ \E d \in DOMAIN fs.runs : Head(d) # PFX /\ fs.runs[d].kind = "list"


\* the process has ended
Ended == pc \in {"exited", "crashed", "done"}

\* C13 as stated: when result files are discovered but no record is loaded
\* (every file malformed or an empty array), the analyzer exits with a
\* non-zero status and a diagnostic message: it ends by an exit of its own
\* after printing a message, not by an uncaught exception.
C13_Original ==
    (Ended /\ json_files # <<>> /\ all_results = <<>>) =>
        /\ pc = "exited"
        /\ exit_code > 0


\* C14 as stated: the analyzer exits non-zero only when the directory is
\* missing or no result file is found; in every other run (at least one
\* result file discovered, whatever the files contain) it runs to completion
\* and exits with status zero.
C14_Original ==
    Ended =>
        /\ exit_code # 0 => NothingToFind
        /\ json_files # <<>> => (pc = "done" /\ exit_code = 0)


\* C15 as stated: for any loaded records with numeric convergence times
\* (zero records and keys whose first-half mean is 0 included), no step of
\* trend computation, stability computation or report rendering divides by
\* zero: no run ends on a ZeroDivisionError.
C15_Original ==
    ~(pc = "crashed" /\ Printed("Traceback: ZeroDivisionError"))


Wrote(name) == \E i \in 1..Len(written) : written[i] = name
FilesWritten == { written[i] : i \in 1..Len(written) }

\* C16: in a run that reaches the output stage, trend_analysis.txt is always
\* written (first, and once), and trend_chart.html is written if and only if
\* the trend map has at least one key; before the output stage nothing is
\* written.
C16_OutputFiles ==
    /\ pc \in {"save_chart", "finish", "done"} =>
          /\ written # <<>>
          /\ Head(written) = "trend_analysis.txt"
    /\ pc \in {"finish", "done"} =>
          /\ Wrote("trend_chart.html") <=> Len(trends) >= 1
          /\ Len(written) = Cardinality(FilesWritten)
    /\ pc \notin {"save_chart", "finish", "done"} => written = <<>>
    /\ FilesWritten \subseteq {"trend_analysis.txt", "trend_chart.html"}

\* a finished run with records but no trend key: the report alone is written
C16_Witness ==
    /\ pc = "done"
    /\ all_results # <<>>
    /\ trends = <<>>
    /\ written = <<"trend_analysis.txt">>


\* the rendered report has a line that starts with `label`
HasLine(label) == \E i \in 1..Len(report) : report[i][1] = label
Rendered == report # <<>>

DegradationWarned == HasLine("WARNING: Performance degradation detected")
InstabilityWarned == HasLine("WARNING: High DR/BDR role instability")
ConvergenceWarned == HasLine("WARNING: Convergence time exceeds 10 seconds")
SuccessLine == HasLine("Network performance is stable with no degradation")

SomeDegrading == \E i \in 1..Len(trends) : trends[i].trend = "DEGRADING"
AvgAboveTen == RatLess(RatOfInt(10), stability.avg_convergence)

\* C17 as stated: the degradation warning is emitted iff some key is
\* DEGRADING, the convergence warning iff avg_convergence > 10, and the
\* success line exactly when none of the three warnings is emitted.
C17_Original ==
    Rendered =>
        /\ DegradationWarned <=> SomeDegrading
        /\ ConvergenceWarned <=> AvgAboveTen
        /\ SuccessLine <=>
              ~(DegradationWarned \/ InstabilityWarned \/ ConvergenceWarned)

\* C17: in the recommendations block of a rendered report the degradation
\* warning is emitted iff some key is DEGRADING, the convergence warning iff
\* avg_convergence > 10, and the success line iff no key is DEGRADING and
\* the failed counter is 0, whether or not the DR/BDR or the convergence
\* warning is emitted.
C17_Recommendations ==
    Rendered =>
        /\ DegradationWarned <=> SomeDegrading
        /\ ConvergenceWarned <=> AvgAboveTen
        /\ SuccessLine <=> (~SomeDegrading /\ stability.failed = 0)

\* a report that carries the convergence warning and the success line
C17_Witness ==
    /\ Rendered
    /\ ConvergenceWarned
    /\ SuccessLine


\* the position of the first line of the report that starts with `label`
LineOf(label) ==
    CHOOSE i \in 1..Len(report) :
        /\ report[i][1] = label
        /\ \A j \in 1..(i - 1) : report[j][1] # label

\* the first lines of the per-interface blocks, and their keys, in order
BlockHeads == { i \in 1..Len(report) : report[i][1] = "Interface" }
BlockKeys ==
    LET heads == SelectSeq(report, LAMBDA l : l[1] = "Interface")
    IN  [i \in 1..Len(heads) |-> heads[i][2]]

\* C18: a rendered report lists one block per key of the trend map, each key
\* exactly once, in ascending order of the key, after the overall stability
\* block and before the recommendations block.
C18_TrendBlocks ==
    Rendered =>
        /\ Len(BlockKeys) = Len(trends)
        /\ { BlockKeys[i] : i \in 1..Len(BlockKeys) }
              = { trends[i].key : i \in 1..Len(trends) }
        /\ \A i \in 1..(Len(BlockKeys) - 1) :
              KeyLess(BlockKeys[i], BlockKeys[i + 1])
        /\ \A i \in BlockHeads :
              /\ LineOf("OVERALL STABILITY") < i
              /\ LineOf("Avg Convergence") < i
              /\ i < LineOf("TREND-BASED RECOMMENDATIONS")

\* two keys that entered the trend map in descending order
C18_Witness ==
    /\ Rendered
    /\ Len(trends) = 2
    /\ KeyLess(trends[2].key, trends[1].key)
    /\ BlockKeys = <<trends[2].key, trends[1].key>>


\* a second invocation of generate_trend_report on the trend map and the
\* stability summary of this run, at the time `now`
RenderedAgain(now) == GenerateTrendReport(trends, stability, now)

\* the report without its "Generated: <time>" line
WithoutStamp(text) == SelectSeq(text, LAMBDA l : l[1] # "Generated")

\* C19 as stated: two invocations of generate_trend_report on the same trend
\* map and stability summary produce the same report text.
C19_Original ==
    Rendered => \A now \in Clock : RenderedAgain(now) = report

\* C19: two invocations of generate_trend_report on the same trend map and
\* stability summary produce reports of the same length that differ at most
\* in their fourth line, "Generated: <time of the invocation>".
C19_SameButStamp ==
    Rendered =>
        \A now \in Clock :
            LET again == RenderedAgain(now)
            IN  /\ Len(again) = Len(report)
                /\ report[4][1] = "Generated"
                /\ [again EXCEPT ![4] = report[4]] = report
                /\ WithoutStamp(again) = WithoutStamp(report)

\* a second invocation at another time gives another text
C19_Witness ==
    /\ Rendered
    /\ trends # <<>>
    /\ \E now \in Clock : RenderedAgain(now) # report


\* the results directory holds one result file, well-formed, of one record
OneFileOneRecord ==
    /\ Len(json_files) = 1
    /\ Loadable(fs.runs[json_files[1]])
    /\ Len(fs.runs[json_files[1]].data) = 1

\* C20: total_tests equals the number of records loaded across all files
\* (the sum of the files' lengths when every file is well-formed); one
\* well-formed file holding one record yields total_tests = 1 and an empty
\* trend map: no per-interface block in the report and no chart file.
C20_TotalTests ==
    StabDone =>
        /\ stability.total_tests = Len(all_results)
        /\ (\A i \in 1..Len(json_files) : Loadable(fs.runs[json_files[i]])) =>
              stability.total_tests =
                  Len(Flatten([i \in 1..Len(json_files) |->
                                  fs.runs[json_files[i]].data]))
        /\ OneFileOneRecord =>
              /\ stability.total_tests = 1
              /\ trends = <<>>
              /\ Rendered => BlockHeads = {}
              /\ ~Wrote("trend_chart.html")
              /\ pc \notin {"crashed", "exited"}

\* the run on one file of one record has ended: a report and no chart
C20_Witness ==
    /\ pc = "done"
    /\ OneFileOneRecord
    /\ stability.total_tests = 1
    /\ BlockHeads = {}
    /\ FilesWritten = {"trend_analysis.txt"}


\* a is not after b in lexicographic order
NameLeq(a, b) == ~NameLess(b, a)

\* C21 as stated: result files are processed in ascending lexicographic order
\* of their path, so in every trend entry the samples' run timestamps are in
\* non-decreasing lexicographic order and the first and second halves are the
\* earlier and the later runs.
C21_Original ==
    /\ FindReturned =>
          \A i \in 1..(Len(json_files) - 1) :
              NameLess(json_files[i], json_files[i + 1])
    /\ TrendsDone =>
          \A k \in 1..Len(trends) :
              \A i, j \in 1..Len(trends[k].data) :
                  i < j => NameLeq(trends[k].data[i].timestamp,
                                   trends[k].data[j].timestamp)


\* where a run stands in the sequence read, compute, write
C22_Order ==
    /\ pc \in {"trends", "stability", "report", "save_report", "save_chart",
               "finish", "done", "crashed"} =>
          file_idx = Len(json_files)
    /\ written # <<>> => pc \in {"save_chart", "finish", "done"}
    /\ Wrote("trend_chart.html") =>
          (Len(written) = 2 /\ written[1] = "trend_analysis.txt")

\* what a step may change at each point of the sequence
C22_Steps ==
    /\ (trends' # trends \/ stability' # stability) =>
          (file_idx = Len(json_files) /\ all_results' = all_results)
    /\ written' # written =>
          /\ pc \in {"save_report", "save_chart"}
          /\ trends' = trends /\ stability' = stability
          /\ all_results' = all_results /\ file_idx' = file_idx
    /\ (pc = "save_report" /\ written' # written) =>
          written' = <<"trend_analysis.txt">>
    /\ written # <<>> => (file_idx' = file_idx /\ all_results' = all_results)

\* C22: a run of the analyzer is a strict sequence: every discovered file is
\* read before any statistic is computed, both analyses finish before any
\* output file is written, the text report is written before the chart, and
\* no input file is read after an output file has been written.
C22_StrictSequence == []C22_Order /\ [][C22_Steps]_vars

\* a finished run that read two files and wrote both outputs
C22_Witness ==
    /\ pc = "done"
    /\ Len(json_files) = 2
    /\ all_results # <<>>
    /\ written = <<"trend_analysis.txt", "trend_chart.html">>


\* C25: in a rendered report the DR/BDR instability warning is emitted
\* exactly when dr_bdr_changes exceeds 30% of the number of keys of the
\* stability summary (6 keys, threshold 1.8), that is when dr_bdr_changes >= 2,
\* whatever total_tests is.
C25_InstabilityThreshold ==
    Rendered =>
        /\ InstabilityWarned <=> stability.dr_bdr_changes >= 2
        /\ InstabilityWarned <=> stability.dr_bdr_changes * 10 > 6 * 3

\* two role changes in a single test are warned about
C25_Witness ==
    /\ Rendered
    /\ stability.total_tests = 1
    /\ stability.dr_bdr_changes = 2
    /\ InstabilityWarned


\* exact arithmetic on fractions
RatAdd(p, q) == Frac(p[1] * q[2] + q[1] * p[2], p[2] * q[2])
RatTimes(k, p) == Frac(k * p[1], p[2])

\* floor(n/2) * first_half_avg + (n - floor(n/2)) * second_half_avg
\* = n * average
HalfMeanIdentity(e) ==
    LET n == e.measurements
    IN  RatAdd(RatTimes(n \div 2, e.first_half_avg),
               RatTimes(n - n \div 2, e.second_half_avg))
            = RatTimes(n, e.average)

\* what the identity entails for the half means and the trend
HalfMeanConsequences(e) ==
    /\ RatLeq(e.min, e.first_half_avg) /\ RatLeq(e.first_half_avg, e.max)
    /\ RatLeq(e.min, e.second_half_avg) /\ RatLeq(e.second_half_avg, e.max)
    /\ e.trend = "IMPROVING" =>
          (RatLess(e.second_half_avg, e.average)
              /\ RatLess(e.average, e.first_half_avg))
    /\ e.trend = "DEGRADING" =>
          (RatLess(e.first_half_avg, e.average)
              /\ RatLess(e.average, e.second_half_avg))
    /\ e.trend = "STABLE" =>
          (e.first_half_avg = e.second_half_avg
              /\ e.second_half_avg = e.average)

\* the three means of the entry are the real means of their samples: no sum
\* and no quotient was rounded
ExactMeans(e, ts) ==
    LET m == Len(ts) \div 2
    IN  /\ RatTimes(Len(ts), e.average) = ExactSum(ts)
        /\ RatTimes(m, e.first_half_avg) = ExactSum(Take(ts, m))
        /\ RatTimes(Len(ts) - m, e.second_half_avg) = ExactSum(Drop(ts, m))

\* C30 as stated: for every key of the trend map with n samples,
\* floor(n/2) * first_half_avg + (n - floor(n/2)) * second_half_avg
\* = n * average; hence both half means lie between min and max, IMPROVING
\* implies second_half_avg < average < first_half_avg, DEGRADING implies
\* first_half_avg < average < second_half_avg, and STABLE implies
\* first_half_avg = second_half_avg = average.
C30_Original ==
    TrendsDone =>
        \A i \in 1..Len(trends) :
            HalfMeanIdentity(trends[i]) /\ HalfMeanConsequences(trends[i])

\* C30: for every key of the trend map the half means are the float means of
\* the first floor(n/2) and of the remaining samples; whenever the average
\* and both half means are computed without rounding, the identity holds,
\* both half means lie between min and max, and the trend orders the three
\* means as stated.
C30_HalfMeanIdentity ==
    TrendsDone =>
        \A i \in 1..Len(trends) :
            LET e  == trends[i]
                ts == TimesOfKey(e.key)
                m  == Len(ts) \div 2
            IN  /\ e.measurements = Len(ts)
                /\ e.first_half_avg = FloatMean(Take(ts, m))
                /\ e.second_half_avg = FloatMean(Drop(ts, m))
                /\ ExactMeans(e, ts) =>
                      HalfMeanIdentity(e) /\ HalfMeanConsequences(e)

\* three samples, the halves of one and of two samples, all means exact and
\* the average strictly between the half means
C30_Witness ==
    /\ TrendsDone
    /\ \E i \in 1..Len(trends) :
          LET e == trends[i]
          IN  /\ e.measurements = 3
              /\ ExactMeans(e, TimesOfKey(e.key))
              /\ e.trend = "IMPROVING"
              /\ RatLess(e.second_half_avg, e.average)
              /\ RatLess(e.average, e.first_half_avg)


-----------------------------------------------------------------------------
(* CommonSetup.connect_to_devices: the parallel connect of the scalable     *)
(* test scripts (connectivity_test_scalable.py and                          *)
(* ospf_flap_test_advanced_scalable.py hold the same code).                 *)
(*                                                                          *)
(* Every device's connect_one_device is submitted to a ThreadPoolExecutor   *)
(* of max_workers threads.  A worker thread runs device.connect and returns *)
(* (name, True, None), or (name, False, error) when connect raised an       *)
(* Exception.  The subsection's own thread takes the futures in the order   *)
(* as_completed yields them and appends each name to connected or to        *)
(* failed; only this thread touches the two lists.                          *)

\* the analyzer is not part of a run of the test scripts
TendOff ==
    /\ argv = <<>>
    /\ fs = NoDir
    /\ pc = "off"
    /\ json_files = <<>>
    /\ file_idx = 0
    /\ all_results = <<>>
    /\ warned = <<>>
    /\ trends = <<>>
    /\ stability = NoStability
    /\ report = <<>>
    /\ stdout = <<>>
    /\ written = <<>>
    /\ exit_code = -1

\* testbed.devices: the names of the devices
DeviceName(i) == <<"R", i>>
Testbeds == SUBSET { DeviceName(i) : i \in 1..MaxDevices }

\* the state once every connect_one_device has been submitted to the pool
ConnectInit ==
    /\ TendOff
    /\ FlapOff
    /\ devices \in Testbeds
    /\ max_workers \in 1..MaxWorkers
    /\ future = [d \in devices |-> "pending"]
    /\ yielded = {}
    /\ connected = <<>>
    /\ failed = <<>>
    /\ section = "pool"

Running == { d \in devices : future[d] = "running" }

\* a free worker thread takes the next submitted call
StartConnect(d) ==
    /\ section = "pool"
    /\ future[d] = "pending"
    /\ Cardinality(Running) < max_workers
    /\ future' = [future EXCEPT ![d] = "running"]
    /\ UNCHANGED <<devices, max_workers, yielded, connected, failed, section>>
    /\ UNCHANGED <<tendvars, flapvars>>

\* device.connect returns: the future's result is (name, True, None)
ConnectReturns(d) ==
    /\ section = "pool"
    /\ future[d] = "running"
    /\ future' = [future EXCEPT ![d] = "ok"]
    /\ UNCHANGED <<devices, max_workers, yielded, connected, failed, section>>
    /\ UNCHANGED <<tendvars, flapvars>>

\* device.connect raises: the future's result is (name, False, str(e))
ConnectRaises(d) ==
    /\ section = "pool"
    /\ future[d] = "running"
    /\ future' = [future EXCEPT ![d] = "raised"]
    /\ UNCHANGED <<devices, max_workers, yielded, connected, failed, section>>
    /\ UNCHANGED <<tendvars, flapvars>>

\* one iteration of `for future in as_completed(future_to_device)`
Collect(d) ==
    /\ section = "pool"
    /\ d \notin yielded
    /\ future[d] \in {"ok", "raised"}
    /\ yielded' = yielded \cup {d}
    /\ connected' = IF future[d] = "ok" THEN Append(connected, d)
                    ELSE connected
    /\ failed' = IF future[d] = "ok" THEN failed ELSE Append(failed, d)
    /\ UNCHANGED <<devices, max_workers, future, section>>
    /\ UNCHANGED <<tendvars, flapvars>>

\* a subsection that fails only when no device connected
SectionResult_FailsWhenNone(conn, fail) ==
    IF fail # <<>> /\ conn = <<>> THEN "failed" ELSE "passed"

\* if failed: self.failed(...)
SectionResult(conn, fail) == IF fail # <<>> THEN "failed" ELSE "passed"

\* as_completed is exhausted and the pool shut down; the summary
Summarize ==
    /\ section = "pool"
    /\ yielded = devices
    /\ section' = SectionResult(connected, failed)
    /\ UNCHANGED <<devices, max_workers, future, yielded, connected, failed>>
    /\ UNCHANGED <<tendvars, flapvars>>

ConnectNext ==
    \/ \E d \in devices : StartConnect(d)
    \/ \E d \in devices : ConnectReturns(d)
    \/ \E d \in devices : ConnectRaises(d)
    \/ \E d \in devices : Collect(d)
    \/ Summarize

ConnectSpec == ConnectInit /\ [][ConnectNext]_vars


\* how often d occurs in the list
Occurrences(d, list) == Cardinality({ i \in 1..Len(list) : list[i] = d })

\* the with block has been left: every future was yielded, the pool is down
PoolDrained == section \in {"passed", "failed"}

\* C23: for any completion order of the worker threads, once the pool has
\* drained every testbed device appears exactly once in exactly one of the
\* lists connected and failed (their lengths sum to the device count), and
\* the subsection is marked failed if and only if at least one device's
\* connect raised.
C23_ConnectLists ==
    PoolDrained =>
        /\ \A d \in devices :
              /\ Occurrences(d, connected) + Occurrences(d, failed) = 1
              /\ Occurrences(d, connected) = 1 <=> future[d] = "ok"
              /\ Occurrences(d, failed) = 1 <=> future[d] = "raised"
        /\ \A i \in 1..Len(connected) : connected[i] \in devices
        /\ \A i \in 1..Len(failed) : failed[i] \in devices
        /\ Len(connected) + Len(failed) = Cardinality(devices)
        /\ section = "failed" <=> \E d \in devices : future[d] = "raised"

\* three devices completed out of order, one of them failed
C23_Witness ==
    /\ PoolDrained
    /\ connected = <<DeviceName(3), DeviceName(1)>>
    /\ failed = <<DeviceName(2)>>
    /\ section = "failed"


-----------------------------------------------------------------------------
(* TestOspfInterfaceFlap (ospf_flap_test_advanced.py): the flap test that   *)
(* writes the records the analyzer reads.                                   *)
(*                                                                          *)
(* flap_and_verify_ospf loops over test_configs.  For each configuration it *)
(* captures the baseline neighbor table, pushes `shutdown`, checks that the *)
(* interface is down, pushes `no shutdown`, checks that it is up, and polls *)
(* the neighbor table until it has as many neighbors as the baseline, all   *)
(* FULL, or until the timeout.  Every command to the device may raise; an   *)
(* Exception inside the try block is caught, recorded under 'error', and    *)
(* the finally clause appends the record.  A dict is a function from its    *)
(* keys, so a key that was never set is outside its DOMAIN.  The output of  *)
(* a command is the sequence of its lines, a line the tuple of its          *)
(* whitespace-separated parts.  Time is counted in whole seconds.           *)

\* d[k] = v on a dict
SetKey(d, k, v) == [x \in DOMAIN d \cup {k} |-> IF x = k THEN v ELSE d[x]]

\* outputs of "show ip ospf neighbor"
OspfHeader ==
    <<"Neighbor", "ID", "Pri", "State", "Dead", "Time", "Address", "Interface">>
OspfLine(id, state) ==
    <<id, "1", state, "00:00:35", "10.0.0.1", "GigabitEthernet0/1">>
OspfOutputs ==
    { <<OspfHeader, OspfLine("10.0.0.2", "FULL/DR"),
        OspfLine("10.0.0.3", "FULL/BDR")>>,
      <<OspfHeader, OspfLine("10.0.0.2", "FULL/DR"),
        OspfLine("10.0.0.3", "INIT/DROTHER")>>,
      <<OspfHeader>> }

\* _parse_neighbors: a line counts when it is not blank, does not start with
\* 'Neighbor' and has at least 5 parts; a later line of a neighbor id
\* replaces an earlier one
ParseNeighbors(output) ==
    LET kept == SelectSeq(output,
                          LAMBDA l : Len(l) >= 5 /\ l[1] # "Neighbor")
        last(id) == CHOOSE i \in 1..Len(kept) :
                        /\ kept[i][1] = id
                        /\ \A j \in (i + 1)..Len(kept) : kept[j][1] # id
    IN  [id \in { kept[i][1] : i \in 1..Len(kept) } |->
            [state     |-> kept[last(id)][3],
             interface |-> IF Len(kept[last(id)]) > 5 THEN kept[last(id)][6]
                           ELSE "unknown"]]

\* info['state'].startswith('FULL')
StartsWithFull(state) == state \in {"FULL/DR", "FULL/BDR", "FULL/DROTHER"}

\* outputs of "show ip interface brief | include <interface>": the status and
\* protocol columns
IntfOutputs == { "up up", "administratively down down", "up down" }
\* "down" in intf_output.lower(), "up" in intf_output.lower()
HasDown(out) == out \in {"administratively down down", "up down"}
HasUp(out) == out \in {"up up", "up down"}

\* the names of testbed.devices
FlapTestbed == {"R1", "R2"}

\* the i-th configuration of a datafile; R9 is no device of the testbed
ConfigAt(i, known) ==
    [device    |-> IF known THEN "R1" ELSE "R9",
     interface |-> IF i % 2 = 1 THEN "GigabitEthernet0/1"
                   ELSE "GigabitEthernet0/2"]

\* the lists of configurations: at most one entry names an unknown device
TestConfigLists ==
    { [i \in 1..n |-> ConfigAt(i, i # unknown)] :
        n \in 0..MaxConfigs, unknown \in 0..MaxConfigs }

\* the state when aetest calls flap_and_verify_ospf, after setup
FlapInit ==
    /\ TendOff
    /\ ConnOff
    /\ test_configs \in TestConfigLists
    /\ convergence_timeout \in 0..MaxTimeout
    /\ export_results \in BOOLEAN
    /\ fpc = "loop"
    /\ cfg_idx = 0
    /\ test_result = <<>>
    /\ test_results = <<>>
    /\ baseline_neighbors = <<>>
    /\ current_neighbors = <<>>
    /\ converged = FALSE
    /\ elapsed = 0
    /\ pushed = <<>>
    /\ results_file = <<>>


\* test_result as the loop creates it
NewResult(config) ==
    [device     |-> config.device,
     interface  |-> config.interface,
     start_time |-> "now",
     status     |-> "FAILED"]

\* an Exception raised inside the try block: the except clause records it,
\* the status stays as it is
Raised(message) ==
    /\ test_result' = SetKey(test_result, "error", message)
    /\ fpc' = "finally"

\* the head of `for test_config in test_configs`, up to the try block;
\* testbed.devices[device_name] raises KeyError for an unknown device, outside
\* of the try block, and the exception leaves flap_and_verify_ospf
NextConfig ==
    /\ fpc = "loop"
    /\ cfg_idx < Len(test_configs)
    /\ LET config == test_configs[cfg_idx + 1]
       IN  IF config.device \in FlapTestbed
           THEN /\ test_result' = NewResult(config)
                /\ fpc' = "baseline"
           ELSE /\ fpc' = "aborted"
                /\ UNCHANGED test_result
    /\ UNCHANGED <<test_configs, convergence_timeout, export_results, cfg_idx,
                   test_results, baseline_neighbors, current_neighbors,
                   converged, elapsed, pushed, results_file>>
    /\ UNCHANGED <<tendvars, connvars>>

\* the loop is exhausted: flap_and_verify_ospf returns
LoopEnd ==
    /\ fpc = "loop"
    /\ cfg_idx = Len(test_configs)
    /\ fpc' = "returned"
    /\ UNCHANGED <<test_configs, convergence_timeout, export_results, cfg_idx,
                   test_result, test_results, baseline_neighbors,
                   current_neighbors, converged, elapsed, pushed,
                   results_file>>
    /\ UNCHANGED <<tendvars, connvars>>

\* Step 1: capture baseline
CaptureBaseline ==
    /\ fpc = "baseline"
    /\ \/ \E out \in OspfOutputs :
             /\ baseline_neighbors' = ParseNeighbors(out)
             /\ test_result' = SetKey(test_result, "baseline_neighbors",
                                      ParseNeighbors(out))
             /\ fpc' = "shutdown"
       \/ /\ Raised("execute failed")
          /\ UNCHANGED baseline_neighbors
    /\ UNCHANGED <<test_configs, convergence_timeout, export_results, cfg_idx,
                   test_results, current_neighbors, converged, elapsed,
                   pushed, results_file>>
    /\ UNCHANGED <<tendvars, connvars>>

\* device.configure([f"interface {interface}", command])
Push(command) ==
    Append(pushed, [device    |-> test_result.device,
                    interface |-> test_result.interface,
                    command   |-> command])

\* Step 2: shutdown; a configure that raises may or may not have reached
\* the device
PushShutdown ==
    /\ fpc = "shutdown"
    /\ \/ /\ pushed' = Push("shutdown")
          /\ fpc' = "check_down"
          /\ UNCHANGED test_result
       \/ /\ Raised("configure failed")
          /\ pushed' \in {pushed, Push("shutdown")}
    /\ UNCHANGED <<test_configs, convergence_timeout, export_results, cfg_idx,
                   test_results, baseline_neighbors, current_neighbors,
                   converged, elapsed, results_file>>
    /\ UNCHANGED <<tendvars, connvars>>

\* verify interface is down
CheckDown ==
    /\ fpc = "check_down"
    /\ \/ \E out \in IntfOutputs :
             IF HasDown(out)
             THEN fpc' = "after_shutdown" /\ UNCHANGED test_result
             ELSE Raised("did not go down")
       \/ Raised("execute failed")
    /\ UNCHANGED <<test_configs, convergence_timeout, export_results, cfg_idx,
                   test_results, baseline_neighbors, current_neighbors,
                   converged, elapsed, pushed, results_file>>
    /\ UNCHANGED <<tendvars, connvars>>

\* check OSPF neighbor loss: the table is only logged
AfterShutdown ==
    /\ fpc = "after_shutdown"
    /\ \/ fpc' = "no_shutdown" /\ UNCHANGED test_result
       \/ Raised("execute failed")
    /\ UNCHANGED <<test_configs, convergence_timeout, export_results, cfg_idx,
                   test_results, baseline_neighbors, current_neighbors,
                   converged, elapsed, pushed, results_file>>
    /\ UNCHANGED <<tendvars, connvars>>

\* Step 3: bring interface back up
PushNoShutdown ==
    /\ fpc = "no_shutdown"
    /\ \/ /\ pushed' = Push("no shutdown")
          /\ fpc' = "check_up"
          /\ UNCHANGED test_result
       \/ /\ Raised("configure failed")
          /\ pushed' \in {pushed, Push("no shutdown")}
    /\ UNCHANGED <<test_configs, convergence_timeout, export_results, cfg_idx,
                   test_results, baseline_neighbors, current_neighbors,
                   converged, elapsed, results_file>>
    /\ UNCHANGED <<tendvars, connvars>>

\* verify interface is up; then convergence_start = time.time() and
\* converged = False
CheckUp ==
    /\ fpc = "check_up"
    /\ \/ \E out \in IntfOutputs :
             IF HasUp(out)
             THEN /\ fpc' = "poll"
                  /\ elapsed' = 0
                  /\ converged' = FALSE
                  /\ UNCHANGED test_result
             ELSE Raised("did not come back up")
                  /\ UNCHANGED <<elapsed, converged>>
       \/ Raised("execute failed") /\ UNCHANGED <<elapsed, converged>>
    /\ UNCHANGED <<test_configs, convergence_timeout, export_results, cfg_idx,
                   test_results, baseline_neighbors, current_neighbors,
                   pushed, results_file>>
    /\ UNCHANGED <<tendvars, connvars>>


\* the same number of neighbors as the baseline, all in a FULL state
ConvergedTable(current, baseline) ==
    /\ Cardinality(DOMAIN current) = Cardinality(DOMAIN baseline)
    /\ \A id \in DOMAIN current : StartsWithFull(current[id].state)

\* a record that keeps the time but not the table it converged on
RecordConvergence_TimeOnly(result, time, current) ==
    SetKey(result, "convergence_time", time)

\* test_result['convergence_time'] = elapsed;
\* test_result['final_neighbors'] = current_neighbors
RecordConvergence(result, time, current) ==
    SetKey(SetKey(result, "convergence_time", time), "final_neighbors", current)

\* a sleep during which the clock stands still
AfterSleep_Stalled(now) == now

\* time.sleep(convergence_check_interval): the clock advances, by a second
\* at least
AfterSleep(now) == now + 1

\* one iteration of the while loop: the condition holds, the command takes
\* zero or one second; on convergence the loop is left by break
Poll ==
    /\ fpc = "poll"
    /\ elapsed < convergence_timeout
    /\ \/ \E out \in OspfOutputs, took \in 0..1 :
             LET current == ParseNeighbors(out)
                 now     == elapsed + took
             IN  /\ current_neighbors' = current
                 /\ IF ConvergedTable(current, baseline_neighbors)
                    THEN /\ test_result' =
                               RecordConvergence(test_result, now, current)
                         /\ converged' = TRUE
                         /\ elapsed' = now
                         /\ fpc' = "compare"
                    ELSE /\ elapsed' = AfterSleep(now)
                         /\ UNCHANGED <<test_result, converged, fpc>>
       \/ /\ Raised("execute failed")
          /\ UNCHANGED <<current_neighbors, converged, elapsed>>
    /\ UNCHANGED <<test_configs, convergence_timeout, export_results, cfg_idx,
                   test_results, baseline_neighbors, pushed, results_file>>
    /\ UNCHANGED <<tendvars, connvars>>

\* the while condition fails; if not converged: raise Exception(...)
PollTimeout ==
    /\ fpc = "poll"
    /\ ~(elapsed < convergence_timeout)
    /\ Raised("did not converge")
    /\ UNCHANGED <<test_configs, convergence_timeout, export_results, cfg_idx,
                   test_results, baseline_neighbors, current_neighbors,
                   converged, elapsed, pushed, results_file>>
    /\ UNCHANGED <<tendvars, connvars>>

\* a comparison that passes every converged test
FinalStatus_AlwaysPassed(current, baseline) == "PASSED"

\* Step 5: verify state matches baseline
FinalStatus(current, baseline) ==
    IF current = baseline THEN "PASSED" ELSE "PARTIAL"

Compare ==
    /\ fpc = "compare"
    /\ test_result' =
          SetKey(test_result, "status",
                 FinalStatus(current_neighbors, baseline_neighbors))
    /\ fpc' = "finally"
    /\ UNCHANGED <<test_configs, convergence_timeout, export_results, cfg_idx,
                   test_results, baseline_neighbors, current_neighbors,
                   converged, elapsed, pushed, results_file>>
    /\ UNCHANGED <<tendvars, connvars>>

\* finally: end_time, self.test_results.append(test_result); next iteration
Finally ==
    /\ fpc = "finally"
    /\ test_result' = SetKey(test_result, "end_time", "now")
    /\ test_results' = Append(test_results, test_result')
    /\ cfg_idx' = cfg_idx + 1
    /\ fpc' = "loop"
    /\ UNCHANGED <<test_configs, convergence_timeout, export_results,
                   baseline_neighbors, current_neighbors, converged, elapsed,
                   pushed, results_file>>
    /\ UNCHANGED <<tendvars, connvars>>

\* the cleanup section, which aetest runs also after a test that raised:
\* if export_results and self.test_results: json.dump(self.test_results, f)
SaveResults ==
    /\ fpc \in {"returned", "aborted"}
    /\ results_file' = IF export_results /\ test_results # <<>>
                       THEN <<test_results>> ELSE results_file
    /\ fpc' = "saved"
    /\ UNCHANGED <<test_configs, convergence_timeout, export_results, cfg_idx,
                   test_result, test_results, baseline_neighbors,
                   current_neighbors, converged, elapsed, pushed>>
    /\ UNCHANGED <<tendvars, connvars>>

FlapNext ==
    \/ NextConfig
    \/ LoopEnd
    \/ CaptureBaseline
    \/ PushShutdown
    \/ CheckDown
    \/ AfterShutdown
    \/ PushNoShutdown
    \/ CheckUp
    \/ Poll
    \/ PollTimeout
    \/ Compare
    \/ Finally
    \/ SaveResults

FlapSpec == FlapInit /\ [][FlapNext]_vars

\* the test is single-threaded: while a step is possible the interpreter
\* takes one (every device command returns or raises)
FlapLive == FlapSpec /\ WF_vars(FlapNext)


-----------------------------------------------------------------------------
(* Properties of the flap test *)

\* flap_and_verify_ospf is over: it returned, or an exception left it
FlapEnded == fpc \in {"returned", "aborted", "saved"}

HasKey(d, k) == k \in DOMAIN d

ObservedConvergence(r) ==
    /\ HasKey(r, "baseline_neighbors")
    /\ HasKey(r, "final_neighbors")
    /\ HasKey(r, "convergence_time")
    /\ ConvergedTable(r.final_neighbors, r.baseline_neighbors)

StatusAsClaimed(r, observed) ==
    /\ r.status = "PASSED" <=>
          (observed /\ r.final_neighbors = r.baseline_neighbors)
    /\ r.status = "PARTIAL" <=>
          (observed /\ r.final_neighbors # r.baseline_neighbors)
    /\ r.status = "FAILED" <=> ~observed

\* C26 as stated: a record gets status PASSED iff the poll loop observed,
\* before the timeout, a neighbor table with as many neighbors as the
\* baseline and all in a FULL state, and that table equals the baseline;
\* PARTIAL iff such a table was observed but differs from the baseline;
\* FAILED in every other case.
C26_Original ==
    \A i \in 1..Len(test_results) :
        LET r == test_results[i]
        IN  StatusAsClaimed(r, ObservedConvergence(r)
                               /\ r.convergence_time < convergence_timeout)

\* C26: a record gets status PASSED iff a poll that began before the timeout
\* returned a neighbor table with as many neighbors as the baseline and all
\* in a FULL state, and that table equals the baseline; PARTIAL iff such a
\* table was returned but differs from the baseline; FAILED in every other
\* case.  The time recorded for that poll is taken after its command
\* returned and can reach or exceed the timeout.
C26_Status ==
    /\ \A i \in 1..Len(test_results) :
          LET r == test_results[i]
          IN  /\ StatusAsClaimed(r, ObservedConvergence(r))
              /\ r.status \in {"PASSED", "PARTIAL", "FAILED"}
    /\ fpc = "compare" =>
          /\ elapsed >= 0
          /\ ConvergedTable(current_neighbors, baseline_neighbors)
          /\ test_result.final_neighbors = current_neighbors
          /\ test_result.baseline_neighbors = baseline_neighbors
          /\ test_result.convergence_time = elapsed

\* a PASSED record whose poll returned when the timeout had been reached,
\* and a PARTIAL record
C26_Witness ==
    /\ Len(test_results) = 2
    /\ test_results[1].status = "PASSED"
    /\ test_results[1].convergence_time >= convergence_timeout
    /\ test_results[2].status = "PARTIAL"



\* the test is between two configurations, or over
BetweenConfigs == fpc \in {"loop", "returned", "aborted", "saved"}

\* the i-th push is answered by a later `no shutdown` for the same interface
\* of the same device
Restored(i) ==
    \E j \in (i + 1)..Len(pushed) :
        pushed[j] = [pushed[i] EXCEPT !.command = "no shutdown"]

\* C27 as stated: for every tested interface the baseline capture precedes
\* `shutdown`, and whenever `shutdown` has been pushed, a `no shutdown` for
\* the same interface is pushed before the test moves on to the next
\* configuration, whatever check fails in between.
C27_Original ==
    /\ fpc = "shutdown" => HasKey(test_result, "baseline_neighbors")
    /\ BetweenConfigs =>
          \A i \in 1..Len(pushed) :
              pushed[i].command = "shutdown" => Restored(i)



\* the keys a record has besides those every record has
CarriesConvergence(r) ==
    HasKey(r, "convergence_time") /\ HasKey(r, "final_neighbors")
CarriesNoConvergence(r) ==
    ~HasKey(r, "convergence_time") /\ ~HasKey(r, "final_neighbors")

\* a record the analyzer can read: it indexes device, interface and status
\* of every record, convergence_time only behind `in`, and the state of the
\* neighbors of a record that has both tables
Readable(r) ==
    /\ HasKey(r, "status") /\ HasKey(r, "device") /\ HasKey(r, "interface")
    /\ (HasKey(r, "baseline_neighbors") /\ HasKey(r, "final_neighbors")) =>
          /\ \A n \in DOMAIN r.baseline_neighbors :
                HasKey(r.baseline_neighbors[n], "state")
          /\ \A n \in DOMAIN r.final_neighbors :
                HasKey(r.final_neighbors[n], "state")

WellFormedRecord(r) ==
    /\ HasKey(r, "device") /\ HasKey(r, "interface") /\ HasKey(r, "status")
    /\ r.status \in {"PASSED", "PARTIAL", "FAILED"}
    /\ IF r.status \in {"PASSED", "PARTIAL"}
       THEN CarriesConvergence(r) /\ ~HasKey(r, "error")
       ELSE CarriesNoConvergence(r) /\ HasKey(r, "error")
    /\ Readable(r)

\* C28: every record the flap test appends has device, interface and a
\* status in {PASSED, PARTIAL, FAILED}; it carries convergence_time and
\* final_neighbors if and only if its status is PASSED or PARTIAL, and carries
\* 'error' if and only if its status is FAILED; the same holds of every
\* record written to ospf_flap_results.json, so the analyzer finds every
\* field it reads.
C28_RecordFields ==
    /\ \A i \in 1..Len(test_results) : WellFormedRecord(test_results[i])
    /\ \A f \in 1..Len(results_file) :
          /\ results_file[f] = test_results
          /\ \A i \in 1..Len(results_file[f]) :
                WellFormedRecord(results_file[f][i])

\* a file was written with a FAILED record and a PASSED record
C28_Witness ==
    /\ fpc = "saved"
    /\ Len(results_file) = 1
    /\ Len(results_file[1]) = 2
    /\ results_file[1][1].status = "FAILED"
    /\ results_file[1][1].error = "did not come back up"
    /\ results_file[1][2].status = "PASSED"



\* one step of the while loop, by how it is left or continued
ExitConverged ==
    /\ fpc' = "compare"
    /\ ~converged /\ converged'
    /\ elapsed < convergence_timeout
    /\ ConvergedTable(current_neighbors', baseline_neighbors)
    /\ elapsed' >= elapsed
    /\ test_result'.convergence_time = elapsed'
    /\ ~HasKey(test_result', "error")

ExitTimeout ==
    /\ fpc' = "finally"
    /\ elapsed >= convergence_timeout
    /\ ~converged'
    /\ test_result'.status = "FAILED"
    /\ test_result'.error = "did not converge"
    /\ ~HasKey(test_result', "convergence_time")

\* the command raised instead of returning
ExitRaised ==
    /\ fpc' = "finally"
    /\ elapsed < convergence_timeout
    /\ test_result'.status = "FAILED"
    /\ test_result'.error = "execute failed"

PollAgain ==
    /\ fpc' = "poll"
    /\ elapsed < convergence_timeout
    /\ ~ConvergedTable(current_neighbors', baseline_neighbors)
    /\ elapsed' > elapsed
    /\ ~converged'
    /\ UNCHANGED test_result

PollStep ==
    fpc = "poll" => (ExitConverged \/ ExitTimeout \/ ExitRaised \/ PollAgain)

\* C29: the convergence poll loop always terminates when every command
\* returns or raises and the clock advances over a sleep: it is left on the
\* first poll whose table meets the convergence condition, with the elapsed
\* time recorded, or once the elapsed time has reached the timeout, with the
\* test recorded as FAILED, "did not converge"; a table that never converges
\* is polled again only while the elapsed time, which grows with every
\* sleep, is below the timeout.
C29_PollTerminates ==
    /\ (fpc = "poll") ~> (fpc # "poll")
    /\ [][PollStep]_vars
    /\ [](fpc = "poll" => ~converged)

\* a test that polled until the timeout, and one that converged after a
\* second
C29_Witness ==
    /\ convergence_timeout = MaxTimeout
    /\ Len(test_results) = 2
    /\ test_results[1].status = "FAILED"
    /\ test_results[1].error = "did not converge"
    /\ HasKey(test_results[2], "convergence_time")
    /\ test_results[2].convergence_time = 1

=============================================================================
